---- MODULE Spec2Model ----
(***************************************************************************)
(* State-machine model of stem-splitter-core: the windowed separation run  *)
(* (core/splitter.rs), the engine adapter and its process-wide session     *)
(* (core/engine.rs), and the derived views of SeparatedStems.              *)
(*                                                                         *)
(*   Spec         one process: optional prepare_model calls, then one      *)
(*                separation run through one of the three entry points     *)
(*   SpecResolve  stem-name resolution (name_idx, get_idx) on drawn inputs *)
(*   SpecStems    SeparatedStems views (get, mix, mix_except) on drawn     *)
(*                accumulators                                             *)
(*   SpecEngine   threads calling engine::preload / run_window_demucs      *)
(***************************************************************************)
EXTENDS Integers, Sequences, FiniteSets, TLC

(***************************************************************************)
(* Bounds of the model.                                                    *)
(***************************************************************************)
MaxWin == 3
MaxHop == 3
MaxN == 4
MaxS == 3
MaxModels == 2
MaxNames == 3
MaxLen == 2
MaxThreads == 2
MaxCalls == 1

(***************************************************************************)
(* Program constants (core/engine.rs).                                     *)
(***************************************************************************)
DEMUCS_T == 343980
DEMUCS_F == 2048
DEMUCS_FRAMES == 336
SAMPLE_RATE == 44100

Min(a, b) == IF a <= b THEN a ELSE b

(***************************************************************************)
(* Strings whose letter case matters are sequences of ASCII codes.         *)
(***************************************************************************)
S_vocals == <<118, 111, 99, 97, 108, 115>>
S_drums == <<100, 114, 117, 109, 115>>
S_bass == <<98, 97, 115, 115>>
S_other == <<111, 116, 104, 101, 114>>
S_Vocals == <<86, 111, 99, 97, 108, 115>>
S_VOCALS == <<86, 79, 67, 65, 76, 83>>
S_piano == <<112, 105, 97, 110, 111>>

to_lowercase_keeps_case(s) == s

\* String::to_lowercase on the ASCII range
to_lowercase(s) == [j \in 1..Len(s) |-> IF s[j] \in 65..90 THEN s[j] + 32 ELSE s[j]]

\* Stem::all() and Stem::name()
StemAll == <<"Vocals", "Drums", "Bass", "Other">>

Stems == {"Vocals", "Drums", "Bass", "Other"}

StemName(stem) ==
    CASE stem = "Vocals" -> S_vocals
      [] stem = "Drums" -> S_drums
      [] stem = "Bass" -> S_bass
      [] stem = "Other" -> S_other

\* the positional fallback each entry point passes to get_idx
Fallback(stem) ==
    CASE stem = "Vocals" -> 0
      [] stem = "Drums" -> 1
      [] stem = "Bass" -> 2
      [] stem = "Other" -> 3

(***************************************************************************)
(* separate_stems_internal, lines 328-337: the name -> index table.        *)
(***************************************************************************)
DefaultNames == <<S_vocals, S_drums, S_bass, S_other>>

NamesOrDefault(stems_names) == IF stems_names = <<>> THEN DefaultNames ELSE stems_names

\* HashMap::insert: a later insert of the same key replaces the earlier one
MapInsert(m, k, v) == [x \in (DOMAIN m) \cup {k} |-> IF x = k THEN v ELSE m[x]]

RECURSIVE InsertFrom(_, _, _)
InsertFrom(names, j, m) ==
    IF j > Len(names) THEN m
    ELSE InsertFrom(names, j + 1, MapInsert(m, to_lowercase(names[j]), j - 1))

EmptyMap == [x \in {} |-> 0]

BuildNameIdx(stems_names) == InsertFrom(NamesOrDefault(stems_names), 1, EmptyMap)

\* usize::saturating_sub(1)
SatSub1(x) == IF x = 0 THEN 0 ELSE x - 1

\* the get_idx closure of Separator::separate, split_file and remove_vocals
get_idx(nidx, count, key, fallback) ==
    IF key \in DOMAIN nidx THEN nidx[key] ELSE Min(fallback, SatSub1(count))

IdxOf(nidx, count, stem) == get_idx(nidx, count, StemName(stem), Fallback(stem))

(***************************************************************************)
(* Model manifests and handles (types.rs ModelManifest, ModelHandle).      *)
(***************************************************************************)
SampleRates == {SAMPLE_RATE, 48000}

Windows == (0..MaxWin) \cup {DEMUCS_T}

Hops == 0..MaxHop

\* the stem-name lists of the manifests a run is given
StemLists ==
    { <<>>,
      <<S_vocals, S_drums, S_bass, S_other>>,
      <<S_drums, S_bass, S_other, S_vocals>>,
      <<S_Vocals, S_drums>> }

Manifests == [sample_rate : SampleRates, window : Windows, hop : Hops, stems : StemLists]

ModelFiles == 1..MaxModels

Handles == [manifest : Manifests, local_path : ModelFiles]

NoManifest == [set |-> FALSE, mf |-> [sample_rate |-> 0, window |-> 0, hop |-> 0, stems |-> <<>>]]

NoSession == [set |-> FALSE, file |-> 0, inputs |-> {}]

\* the input names a loaded session can expose
InputSets == {{"input", "x"}, {"input"}, {"x"}}

(***************************************************************************)
(* engine::run_window_demucs.  The ONNX runtime is opaque: one call's      *)
(* answer is a record drawn from OrtAnswers.                               *)
(***************************************************************************)
ShapeTimes ==
    {<<1, s, 2, DEMUCS_T>> : s \in 0..MaxS}
    \cup {<<1>>, <<1, 1, 1, DEMUCS_T>>, <<1, 1, 3, DEMUCS_T>>}

ShapeFreqsFor(st) ==
    LET ns == IF Len(st) >= 2 THEN st[2] ELSE 1
    IN  { <<1, ns, 4, DEMUCS_F, DEMUCS_FRAMES>>,
          <<1, ns + 1, 4, DEMUCS_F, DEMUCS_FRAMES>>,
          <<1, ns, 4, DEMUCS_F>> }

OrtAnswers ==
    { [run_ok |-> FALSE, outs |-> {}, f32 |-> TRUE, shape_time |-> <<>>, shape_freq |-> <<>>] }
    \cup
    { [run_ok |-> TRUE, outs |-> o, f32 |-> TRUE, shape_time |-> <<>>, shape_freq |-> <<>>] :
        o \in {{}, {"output"}, {"add_67"}} }
    \cup
    { [run_ok |-> TRUE, outs |-> {"output", "add_67"}, f32 |-> FALSE,
       shape_time |-> <<>>, shape_freq |-> <<>>] }
    \cup
    UNION { { [run_ok |-> TRUE, outs |-> {"output", "add_67"}, f32 |-> TRUE,
               shape_time |-> st, shape_freq |-> sf] : sf \in ShapeFreqsFor(st) } :
            st \in ShapeTimes }

\* what happens before the session lock is taken (lines 182-208); pre is the
\* outcome of building the input tensors and of the forward transform
PreOutcomes == {"ok", "tensor_err", "dims_mismatch"}

PreLockAnyLength(llen, rlen, pre) ==
    IF llen # rlen THEN "err"
    ELSE IF pre # "ok" THEN "err"
    ELSE "ok"

PreLock(llen, rlen, pre) ==
    IF llen # rlen THEN "err"
    ELSE IF llen # DEMUCS_T THEN "err"
    ELSE IF pre # "ok" THEN "err"
    ELSE "ok"

RECURSIVE Product(_)
Product(sh) == IF sh = <<>> THEN 1 ELSE Head(sh) * Product(Tail(sh))

\* lines 271-285: the || chain reads shape_freq[0..4] left to right
RECURSIVE FreqCheck(_, _, _)
FreqCheck(sf, expect, j) ==
    IF j > Len(expect) THEN "ok"
    ELSE IF j > Len(sf) THEN "panic"
    ELSE IF sf[j] # expect[j] THEN "err"
    ELSE FreqCheck(sf, expect, j + 1)

InLockNoInputCheck(inputs, t, ans) ==
    IF ~ans.run_ok THEN [kind |-> "err", s |-> 0, t |-> 0]
    ELSE IF "output" \notin ans.outs \/ "add_67" \notin ans.outs
         THEN [kind |-> "err", s |-> 0, t |-> 0]
    ELSE IF ~ans.f32 THEN [kind |-> "err", s |-> 0, t |-> 0]
    ELSE IF Len(ans.shape_time) < 2 THEN [kind |-> "panic", s |-> 0, t |-> 0]
    ELSE LET num_sources == ans.shape_time[2]
             fc == FreqCheck(ans.shape_freq,
                             <<1, num_sources, 4, DEMUCS_F, DEMUCS_FRAMES>>, 1)
         IN  IF fc # "ok" THEN [kind |-> fc, s |-> 0, t |-> 0]
             ELSE IF Product(ans.shape_time) < num_sources * 2 * t
                  THEN [kind |-> "panic", s |-> 0, t |-> 0]
             ELSE [kind |-> "ok", s |-> num_sources, t |-> t]

\* lines 216-323, executed holding the session lock
InLock(inputs, t, ans) ==
    IF "input" \notin inputs \/ "x" \notin inputs THEN [kind |-> "err", s |-> 0, t |-> 0]
    ELSE IF ~ans.run_ok THEN [kind |-> "err", s |-> 0, t |-> 0]
    ELSE IF "output" \notin ans.outs \/ "add_67" \notin ans.outs
         THEN [kind |-> "err", s |-> 0, t |-> 0]
    ELSE IF ~ans.f32 THEN [kind |-> "err", s |-> 0, t |-> 0]
    ELSE IF Len(ans.shape_time) < 2 THEN [kind |-> "panic", s |-> 0, t |-> 0]
    ELSE LET num_sources == ans.shape_time[2]
             fc == FreqCheck(ans.shape_freq,
                             <<1, num_sources, 4, DEMUCS_F, DEMUCS_FRAMES>>, 1)
         IN  IF fc # "ok" THEN [kind |-> fc, s |-> 0, t |-> 0]
             ELSE IF Product(ans.shape_time) < num_sources * 2 * t
                  THEN [kind |-> "panic", s |-> 0, t |-> 0]
             ELSE [kind |-> "ok", s |-> num_sources, t |-> t]

\* the engine-mock build's run_window_demucs (lines 341-353)
MOCK_SOURCES == 4

RunWindowMock(llen, rlen) == [kind |-> "ok", s |-> MOCK_SOURCES, t |-> Min(llen, rlen)]

\* one whole call as the single-threaded run sees it
RunWindow(bld, sess, llen, rlen, pre, ans) ==
    IF bld = "mock" THEN RunWindowMock(llen, rlen)
    ELSE IF PreLock(llen, rlen, pre) # "ok" THEN [kind |-> "err", s |-> 0, t |-> 0]
    ELSE IF ~sess.set THEN [kind |-> "panic", s |-> 0, t |-> 0]
    ELSE InLock(sess.inputs, llen, ans)

(***************************************************************************)
(* State.                                                                  *)
(***************************************************************************)
VARIABLES
    build,        \* "ort" or "mock" (cargo feature engine-mock)
    ORT_INIT,     \* engine.rs static ORT_INIT is initialised
    SESSION,      \* engine.rs static SESSION
    MANIFEST,     \* engine.rs static MANIFEST
    poisoned,     \* the session Mutex is poisoned
    pc,           \* position of the separation run
    entry,        \* "separate", "split_file" or "remove_vocals"
    n,            \* number of stereo samples of the input
    pos,          \* window start position
    first_chunk,
    stems_count,
    acc,          \* accumulators: stem index -> position -> sample
    wcount,       \* history: how often each accumulator position was written
    regions,      \* history: the write region of each committed window
    calls,        \* history: number of engine::run_window_demucs calls
    s_seen,       \* history: stem counts reported by the windows
    eng_err,      \* history: an engine call of the run returned an error
    name_idx,
    result,       \* what the entry point returned: "none", "ok", "err"
    files,        \* history: files written (temporary and output)
    events,       \* progress events emitted
    stems,        \* SeparatedStems.stems of the returned value
    names_in,     \* SpecResolve, SpecStems: the drawn manifest stem names
    view,         \* SpecResolve, SpecStems: result of the last derived view
    thr,          \* SpecEngine: per-thread state
    lock,         \* SpecEngine: holder of the session Mutex, 0 when free
    used,         \* SpecEngine, history: model files inference has run on
    opts,         \* the SplitOptions the entry point is called with
    resolved_by,  \* history: the function that resolved the run's model handle
    stereo,       \* SpecContent: the decoded input, position -> <<left, right>>
    left_raw,     \* SpecContent: the window buffer of the left channel
    right_raw     \* SpecContent: the window buffer of the right channel

engVars == <<build, ORT_INIT, SESSION, MANIFEST, poisoned>>

runVars == <<pc, entry, n, pos, first_chunk, stems_count, acc, wcount, regions, calls,
             s_seen, eng_err, name_idx, result, files, events, stems>>

auxVars == <<names_in, view, thr, lock, used, opts, resolved_by, stereo, left_raw,
             right_raw>>

vars == <<engVars, runVars, auxVars>>

Builds == {"ort", "mock"}

\* SplitOptions.model_path: 0 for None, else the model file it names
ModelPaths == {0} \cup ModelFiles

Options == [model_path : ModelPaths]

NoOptions == [model_path |-> 0]

Entries == {"separate", "split_file", "remove_vocals"}

Stage(name) == [ev |-> "Stage", name |-> name]

Writing(name) == [ev |-> "Writing", name |-> name]

Finished == [ev |-> "Finished", name |-> ""]

\* an accumulator sample: the offset i of the output of window k, or zero
Zero == [k |-> -1, i |-> 0]

Sample(k, i) == [k |-> k, i |-> i]

\* vec![vec![[0f32; 2]; n]; stems_count]
ZeroAcc(count, len) == [st \in 0..(count - 1) |-> [p \in 0..(len - 1) |-> Zero]]

ZeroCount(count, len) == [st \in 0..(count - 1) |-> [p \in 0..(len - 1) |-> 0]]

OnceSetOverwrites(cell, v) == v

\* OnceCell::set(v).ok(): the first value stays
OnceSet(cell, v) == IF cell.set THEN cell ELSE v

(***************************************************************************)
(* engine::preload (lines 102-171; mock: 332-335).  po is the outcome of   *)
(* the runtime initialisation and of building the session from the file.   *)
(***************************************************************************)
PreloadOutcomes == {"ok", "init_err", "build_err"}

Preload(bld, oi, sess, man, h, po, ins) ==
    IF bld = "mock"
    THEN [ok |-> TRUE, oi |-> oi, sess |-> sess,
          man |-> OnceSet(man, [set |-> TRUE, mf |-> h.manifest])]
    ELSE IF po = "init_err" /\ ~oi
    THEN [ok |-> FALSE, oi |-> FALSE, sess |-> sess, man |-> man]
    ELSE IF po = "build_err"
    THEN [ok |-> FALSE, oi |-> TRUE, sess |-> sess, man |-> man]
    ELSE [ok |-> TRUE, oi |-> TRUE,
          sess |-> OnceSet(sess, [set |-> TRUE, file |-> h.local_path, inputs |-> ins]),
          man |-> OnceSet(man, [set |-> TRUE, mf |-> h.manifest])]

InitEngine ==
    /\ build \in Builds
    /\ ORT_INIT = FALSE
    /\ SESSION = NoSession
    /\ MANIFEST = NoManifest
    /\ poisoned = FALSE

InitRun ==
    /\ pc = "idle"
    /\ entry = "none"
    /\ n = 0
    /\ pos = 0
    /\ first_chunk = TRUE
    /\ stems_count = 0
    /\ acc = <<>>
    /\ wcount = <<>>
    /\ regions = <<>>
    /\ calls = 0
    /\ s_seen = {}
    /\ eng_err = FALSE
    /\ name_idx = <<>>
    /\ result = "none"
    /\ files = {}
    /\ events = <<>>
    /\ stems = <<>>

InitAux ==
    /\ names_in = <<>>
    /\ opts = NoOptions
    /\ resolved_by = "none"
    /\ stereo = <<>>
    /\ left_raw = <<>>
    /\ right_raw = <<>>
    /\ view = <<>>
    /\ thr = <<>>
    /\ lock = 0
    /\ used = {}

Init == InitEngine /\ InitRun /\ InitAux

(***************************************************************************)
(* lib.rs prepare_model: ensure_model, then engine::preload.               *)
(***************************************************************************)
PrepareModel(h, po, ins) ==
    /\ pc = "idle"
    /\ LET r == Preload(build, ORT_INIT, SESSION, MANIFEST, h, po, ins)
       IN  /\ ORT_INIT' = r.oi
           /\ SESSION' = r.sess
           /\ MANIFEST' = r.man
    /\ UNCHANGED <<build, poisoned, runVars, auxVars>>

(***************************************************************************)
(* separate_stems_internal, lines 249-260: resolve the model, preload the  *)
(* engine, read the installed manifest, check its sample rate.  The handle *)
(* is what ensure_model(&opts.model_name, ..) returned; opts.model_path is  *)
(* not read.                                                               *)
(***************************************************************************)
Fail(evs) ==
    /\ pc' = "failed"
    /\ result' = "err"
    /\ events' = evs

Begin(e, resolved, h, po, ins) ==
    /\ pc = "idle"
    /\ entry' = e
    /\ resolved_by' = "ensure_model"
    /\ IF ~resolved
       THEN /\ Fail(Append(events, Stage("resolve_model")))
            /\ UNCHANGED <<ORT_INIT, SESSION, MANIFEST>>
       ELSE LET r == Preload(build, ORT_INIT, SESSION, MANIFEST, h, po, ins)
                evs == events \o <<Stage("resolve_model"), Stage("engine_preload")>>
            IN  /\ ORT_INIT' = r.oi
                /\ SESSION' = r.sess
                /\ MANIFEST' = r.man
                /\ IF ~r.ok \/ r.man.mf.sample_rate # SAMPLE_RATE
                   THEN Fail(evs)
                   ELSE /\ pc' = "read"
                        /\ events' = evs
                        /\ UNCHANGED result
    /\ UNCHANGED <<build, poisoned, n, pos, first_chunk, stems_count, acc, wcount, regions,
                   calls, s_seen, eng_err, name_idx, files, stems, names_in, view, thr,
                   lock, used, opts, stereo, left_raw, right_raw>>

(***************************************************************************)
(* lines 262-292: read the input, check it and the window settings.        *)
(***************************************************************************)
MaxOf(a, b) == IF a >= b THEN a ELSE b

ConfigOkNoHopLimit(win, hop) == win > 0 /\ hop > 0

\* line 274
ConfigOk(win, hop) == win > 0 /\ hop > 0 /\ hop <= win

ReadAudio(read_ok, len) ==
    /\ pc = "read"
    /\ LET mf == MANIFEST.mf
           evs == Append(events, Stage("read_audio"))
       IN  IF ~read_ok
           THEN Fail(evs) /\ UNCHANGED <<n, stems_count>>
           ELSE /\ n' = len
                /\ IF len = 0 \/ ~ConfigOk(mf.window, mf.hop)
                   THEN Fail(evs) /\ UNCHANGED stems_count
                   ELSE /\ stems_count' = MaxOf(Len(mf.stems), 1)
                        /\ pc' = "loop"
                        /\ events' = Append(evs, Stage("infer"))
                        /\ UNCHANGED result
    /\ UNCHANGED <<engVars, entry, pos, first_chunk, acc, wcount, regions, calls, s_seen,
                   eng_err, name_idx, files, stems, auxVars>>

(***************************************************************************)
(* lines 293-326: one iteration of the windowing loop.                     *)
(***************************************************************************)
\* line 314
CopyLenWholeWindow(hop, t_out, len, p) == Min(t_out, len - p)

CopyLen(hop, t_out, len, p) == Min(Min(hop, t_out), len - p)

LastWindowOneMore(p, hop, len) == p >= len

\* line 322: the loop ends after the window that reaches the end of the input
LastWindow(p, hop, len) == p + hop >= len

\* lines 315-320, for the stems 0..(upto-1)
Commit(a, upto, p, copy_len, k) ==
    [st \in DOMAIN a |->
        IF st < upto
        THEN [q \in DOMAIN a[st] |->
                 IF q >= p /\ q < p + copy_len THEN Sample(k, q - p) ELSE a[st][q]]
        ELSE a[st]]

CountWrites(w, upto, p, copy_len) ==
    [st \in DOMAIN w |->
        IF st < upto
        THEN [q \in DOMAIN w[st] |->
                 IF q >= p /\ q < p + copy_len THEN w[st][q] + 1 ELSE w[st][q]]
        ELSE w[st]]

EngineErrRetried ==
    /\ eng_err' = TRUE
    /\ pc' = "loop"
    /\ UNCHANGED <<result, pos>>

\* line 305: the `?` returns the engine's error from the run
EngineErrSwallowed ==
    /\ eng_err' = TRUE
    /\ UNCHANGED result
    /\ IF LastWindow(pos, MANIFEST.mf.hop, n)
       THEN pc' = "built" /\ UNCHANGED pos
       ELSE pc' = "loop" /\ pos' = pos + MANIFEST.mf.hop

EngineErr ==
    /\ eng_err' = TRUE
    /\ pc' = "failed"
    /\ result' = "err"
    /\ UNCHANGED pos

Window(pre, ans) ==
    /\ pc = "loop"
    /\ LET mf == MANIFEST.mf
           out == RunWindow(build, SESSION, mf.window, mf.window, pre, ans)
       IN  /\ calls' = calls + 1
           /\ CASE out.kind = "err" ->
                     /\ EngineErr
                     /\ UNCHANGED <<poisoned, first_chunk, stems_count, acc, wcount,
                                    regions, s_seen>>
                [] out.kind = "panic" ->
                     /\ pc' = "panicked"
                     /\ poisoned' = SESSION.set
                     /\ UNCHANGED <<result, pos, first_chunk, stems_count, acc, wcount,
                                    regions, s_seen, eng_err>>
                [] out.kind = "ok" ->
                     LET count == IF first_chunk THEN out.s ELSE stems_count
                         a0 == IF first_chunk THEN ZeroAcc(count, n) ELSE acc
                         w0 == IF first_chunk THEN ZeroCount(count, n) ELSE wcount
                         copy_len == CopyLen(mf.hop, out.t, n, pos)
                         upto == Min(count, out.s)
                     IN  /\ stems_count' = count
                         /\ first_chunk' = FALSE
                         /\ s_seen' = s_seen \cup {out.s}
                         /\ acc' = Commit(a0, upto, pos, copy_len, calls)
                         /\ wcount' = CountWrites(w0, upto, pos, copy_len)
                         /\ UNCHANGED <<poisoned, result, eng_err>>
                         /\ IF out.s < count /\ copy_len > 0
                            THEN \* out[(st, 0, i)] with st >= out.shape()[0]
                                 /\ pc' = "panicked"
                                 /\ UNCHANGED <<pos, regions>>
                            ELSE /\ regions' = Append(regions, [pos |-> pos, len |-> copy_len])
                                 /\ IF LastWindow(pos, mf.hop, n)
                                    THEN pc' = "built" /\ UNCHANGED pos
                                    ELSE pc' = "loop" /\ pos' = pos + mf.hop
    /\ UNCHANGED <<build, ORT_INIT, SESSION, MANIFEST, entry, n, name_idx, files, events,
                   stems, auxVars>>

(***************************************************************************)
(* lines 328-354: build the name table and return the StemDataInternal.    *)
(***************************************************************************)
ReturnStemData ==
    /\ pc = "built"
    /\ name_idx' = BuildNameIdx(MANIFEST.mf.stems)
    /\ pc' = "tail"
    /\ UNCHANGED <<engVars, entry, n, pos, first_chunk, stems_count, acc, wcount, regions,
                   calls, s_seen, eng_err, result, files, events, stems, auxVars>>

(***************************************************************************)
(* Separator::separate, lines 215-236.                                     *)
(***************************************************************************)
AccLen(a) == Cardinality(DOMAIN a)

\* every acc[get_idx(..)] of the entry point is inside the accumulator list
AllInBounds(nidx, count, a) == \A stem \in Stems : IdxOf(nidx, count, stem) < AccLen(a)

\* the HashMap<Stem, Vec<[f32; 2]>> that Separator::separate fills
BuildStems(nidx, count, a) == [stem \in Stems |-> a[IdxOf(nidx, count, stem)]]

SeparateTail ==
    /\ pc = "tail"
    /\ entry = "separate"
    /\ IF AllInBounds(name_idx, stems_count, acc)
       THEN /\ stems' = BuildStems(name_idx, stems_count, acc)
            /\ events' = Append(events, Finished)
            /\ result' = "ok"
            /\ pc' = "done"
       ELSE /\ pc' = "panicked"
            /\ UNCHANGED <<stems, events, result>>
    /\ UNCHANGED <<engVars, entry, n, pos, first_chunk, stems_count, acc, wcount, regions,
                   calls, s_seen, eng_err, name_idx, files, auxVars>>

(***************************************************************************)
(* split_file (lines 358-427) and remove_vocals (lines 444-539): write the *)
(* temporary WAV files, then copy them to the output directory.  io names  *)
(* the file-system call that fails: 0 the directory setup, k the k-th      *)
(* write or copy, a larger number none.                                    *)
(***************************************************************************)
Jobs(e) ==
    IF e = "split_file"
    THEN << [name |-> "vocals", stem |-> "Vocals"], [name |-> "drums", stem |-> "Drums"],
            [name |-> "bass", stem |-> "Bass"], [name |-> "other", stem |-> "Other"] >>
    ELSE << [name |-> "vocals", stem |-> "Vocals"],
            [name |-> "instrumental", stem |-> "none"] >>

IoChoices == 0..5

TmpFile(name) == [dir |-> "tmp", name |-> name]

OutFile(name) == [dir |-> "out", name |-> name]

RECURSIVE WriteJobs(_, _, _, _, _)
WriteJobs(jobs, k, io, evs, fs) ==
    IF k > Len(jobs) THEN [kind |-> "ok", evs |-> evs, fs |-> fs]
    ELSE IF jobs[k].stem # "none"
            /\ IdxOf(name_idx, stems_count, jobs[k].stem) >= AccLen(acc)
    THEN [kind |-> "panic", evs |-> evs, fs |-> fs]
    ELSE IF io = k
    THEN [kind |-> "err", evs |-> Append(evs, Writing(jobs[k].name)), fs |-> fs]
    ELSE WriteJobs(jobs, k + 1, io, Append(evs, Writing(jobs[k].name)),
                   fs \cup {TmpFile(jobs[k].name)})

WriteStems(io) ==
    /\ pc = "tail"
    /\ entry \in {"split_file", "remove_vocals"}
    /\ IF io = 0
       THEN /\ pc' = "failed"
            /\ result' = "err"
            /\ UNCHANGED <<events, files>>
       ELSE LET r == WriteJobs(Jobs(entry), 1, io, Append(events, Stage("write_stems")),
                               files)
            IN  /\ files' = r.fs
                /\ CASE r.kind = "panic" ->
                          /\ pc' = "panicked"
                          /\ events' = r.evs
                          /\ UNCHANGED result
                     [] r.kind = "err" ->
                          /\ pc' = "failed"
                          /\ result' = "err"
                          /\ events' = r.evs
                     [] r.kind = "ok" ->
                          /\ pc' = "finalize"
                          /\ events' = Append(r.evs, Stage("finalize"))
                          /\ UNCHANGED result
    /\ UNCHANGED <<engVars, entry, n, pos, first_chunk, stems_count, acc, wcount, regions,
                   calls, s_seen, eng_err, name_idx, stems, auxVars>>

RECURSIVE CopyJobs(_, _, _, _)
CopyJobs(jobs, k, io, fs) ==
    IF k > Len(jobs) THEN [kind |-> "ok", fs |-> fs]
    ELSE IF io = k THEN [kind |-> "err", fs |-> fs]
    ELSE CopyJobs(jobs, k + 1, io, fs \cup {OutFile(jobs[k].name)})

FinalizeFinishedFirst(io) ==
    /\ pc = "finalize"
    /\ io >= 1
    /\ LET r == CopyJobs(Jobs(entry), 1, io, files)
       IN  /\ files' = r.fs
           /\ events' = Append(events, Finished)
           /\ IF r.kind = "ok"
              THEN result' = "ok" /\ pc' = "done"
              ELSE result' = "err" /\ pc' = "failed"
    /\ UNCHANGED <<engVars, entry, n, pos, first_chunk, stems_count, acc, wcount, regions,
                   calls, s_seen, eng_err, name_idx, stems, auxVars>>

\* lines 406-427 (split_file), 516-539 (remove_vocals)
Finalize(io) ==
    /\ pc = "finalize"
    /\ io >= 1
    /\ LET r == CopyJobs(Jobs(entry), 1, io, files)
       IN  /\ files' = r.fs
           /\ IF r.kind = "ok"
              THEN /\ events' = Append(events, Finished)
                   /\ result' = "ok"
                   /\ pc' = "done"
              ELSE /\ pc' = "failed"
                   /\ result' = "err"
                   /\ UNCHANGED events
    /\ UNCHANGED <<engVars, entry, n, pos, first_chunk, stems_count, acc, wcount, regions,
                   calls, s_seen, eng_err, name_idx, stems, auxVars>>

(***************************************************************************)
(* The process: prepare_model calls, then one separation run.  Once the    *)
(* cells are set preload ignores its handle, so one handle stands for all. *)
(***************************************************************************)
HandlesNow == IF MANIFEST.set THEN {CHOOSE h \in Handles : TRUE} ELSE Handles

InputsNow == IF SESSION.set \/ build = "mock" THEN {{"input", "x"}} ELSE InputSets

OutcomesNow == IF build = "mock" THEN {"ok"} ELSE PreloadOutcomes

AnswersNow == IF build = "mock" THEN {CHOOSE a \in OrtAnswers : TRUE} ELSE OrtAnswers

PreNow == IF build = "mock" THEN {"ok"} ELSE PreOutcomes

Next ==
    \/ \E h \in HandlesNow, po \in OutcomesNow, ins \in InputsNow : PrepareModel(h, po, ins)
    \/ \E e \in Entries, resolved \in BOOLEAN, h \in HandlesNow, po \in OutcomesNow,
          ins \in InputsNow : Begin(e, resolved, h, po, ins)
    \/ \E read_ok \in BOOLEAN, len \in 0..MaxN : ReadAudio(read_ok, len)
    \/ \E pre \in PreNow, ans \in AnswersNow : Window(pre, ans)
    \/ ReturnStemData
    \/ SeparateTail
    \/ \E io \in IoChoices : WriteStems(io)
    \/ \E io \in IoChoices : Finalize(io)

Spec == Init /\ [][Next]_vars

(***************************************************************************)
(* Claims about the separation run (specification Spec).                   *)
(***************************************************************************)
LoopDone == pc \in {"built", "tail", "finalize", "done"}

RegionSet(j) == {q \in 0..(n - 1) : q >= regions[j].pos /\ q < regions[j].pos + regions[j].len}

\* C1: partition coverage.  The write regions [pos, pos+copy_len) of the
\* windowing loop never overlap and never pass N; when the loop has ended
\* their union is [0, N) and every position of every stem accumulator has
\* been written by exactly one window.
C1_PartitionCoverage ==
    /\ \A j \in 1..Len(regions) :
          /\ regions[j].len > 0
          /\ regions[j].pos + regions[j].len <= n
          /\ \A i \in 1..Len(regions) : i # j => RegionSet(i) \cap RegionSet(j) = {}
    /\ \A st \in DOMAIN wcount : \A q \in DOMAIN wcount[st] : wcount[st][q] <= 1
    /\ LoopDone =>
          /\ UNION {RegionSet(j) : j \in 1..Len(regions)} = 0..(n - 1)
          /\ DOMAIN wcount = 0..(stems_count - 1)
          /\ \A st \in DOMAIN wcount :
                /\ DOMAIN wcount[st] = 0..(n - 1)
                /\ \A q \in 0..(n - 1) : wcount[st][q] = 1

\* a finished loop of several windows, window longer than hop, ragged end
C1_Witness ==
    /\ pc = "built"
    /\ Len(regions) >= 2
    /\ MANIFEST.mf.window > MANIFEST.mf.hop
    /\ n % MANIFEST.mf.hop # 0
    /\ stems_count >= 2

\* C2 (as claimed): a window reporting a stem count other than the first
\* window's makes the run fail with an error.
C2_ShapeChangeFails == Cardinality(s_seen) > 1 => pc = "failed" /\ result = "err"

\* C3 (as claimed): with S >= 1 accumulators, the index resolved for each of
\* "vocals", "drums", "bass", "other" lies in [0, S).
C3_IndexInBounds ==
    (pc = "tail" /\ stems_count >= 1) =>
        \A stem \in Stems : IdxOf(name_idx, stems_count, stem) < stems_count

\* C7: configuration errors are detected before any inference.  With an
\* installed manifest whose sample rate is not 44100 or whose window/hop are
\* not 0 < hop <= window, or with an input of zero samples, the run ends with
\* an error and engine::run_window_demucs is never called.
BadManifest ==
    /\ MANIFEST.set
    /\ \/ MANIFEST.mf.sample_rate # SAMPLE_RATE
       \/ MANIFEST.mf.window = 0
       \/ MANIFEST.mf.hop = 0
       \/ MANIFEST.mf.hop > MANIFEST.mf.window

C7_ConfigBeforeInference ==
    /\ BadManifest => calls = 0 /\ pc \in {"idle", "read", "failed"}
    /\ (MANIFEST.set /\ MANIFEST.mf.sample_rate # SAMPLE_RATE /\ pc # "idle") => pc = "failed"
    /\ (pc \notin {"idle", "read"} /\ n = 0) => pc = "failed" /\ calls = 0
    /\ (pc = "failed" /\ calls = 0) => result = "err" /\ files = {} /\ stems = <<>>

\* the input was read, the hop exceeds the window, the run has failed
C7_Witness ==
    /\ pc = "failed"
    /\ n > 0
    /\ MANIFEST.mf.sample_rate = SAMPLE_RATE
    /\ MANIFEST.mf.hop > MANIFEST.mf.window
    /\ MANIFEST.mf.window > 0
    /\ calls = 0

\* C8: no partial result.  Once an engine call has returned an error the run
\* has failed with an error: no SeparatedStems and no path is returned, no
\* file is written, nothing is reported written or finished.  In every run
\* that has not crashed each window is committed for all stems or for none.
WholeWindows ==
    \A st \in DOMAIN acc : \A q \in DOMAIN acc[st] :
        IF \E j \in 1..Len(regions) : q \in RegionSet(j)
        THEN \E j \in 1..Len(regions) :
                q \in RegionSet(j) /\ acc[st][q] = Sample(j - 1, q - regions[j].pos)
        ELSE acc[st][q] = Zero

C11_ChunkProgressReported ==
    (pc = "done" /\ result = "ok") =>
        \E j \in 1..Len(events) :
            /\ events[j].ev = "Chunks"
            /\ events[j].done = calls
            /\ events[j].total = calls

\* the names of the Stage events of the run, in the order emitted
StageNames ==
    LET st == SelectSeq(events, LAMBDA e : e.ev = "Stage")
    IN  [j \in 1..Len(st) |-> st[j].name]

AllStages ==
    <<"resolve_model", "engine_preload", "read_audio", "infer", "write_stems", "finalize">>

FinishedAt == {j \in 1..Len(events) : events[j].ev = "Finished"}

\* C12 (as claimed): every successful run, through any entry point, reports
\* all six stage transitions once and in order, then Finished.
C12_SixStagesEveryEntry ==
    result = "ok" => StageNames = AllStages /\ FinishedAt = {Len(events)}

\* C12 (amended): the stages of a run are reported once each and in the order
\* resolve_model, engine_preload, read_audio, infer, write_stems, finalize.
\* A successful split_file or remove_vocals run has reported all six, a
\* successful Separator::separate run (which writes nothing) the first four;
\* either is followed by exactly one Finished, the last event of the run.  A
\* run that fails or crashes never emits Finished.
C12_StageAndFinishOrder ==
    /\ Len(StageNames) <= Len(AllStages)
    /\ StageNames = SubSeq(AllStages, 1, Len(StageNames))
    /\ result = "ok" =>
          /\ entry \in {"split_file", "remove_vocals"} => StageNames = AllStages
          /\ entry = "separate" => StageNames = SubSeq(AllStages, 1, 4)
          /\ FinishedAt = {Len(events)}
    /\ result # "ok" => FinishedAt = {}

\* a split_file run that returned Ok: six stages, four Writing events, Finished
C12_Witness ==
    /\ result = "ok"
    /\ entry = "split_file"
    /\ Len(events) = 11
    /\ events[Len(events)] = Finished

(***************************************************************************)
(* SpecOptions: the start of a run for every SplitOptions.model_path.      *)
(***************************************************************************)
InitOptions ==
    /\ InitEngine
    /\ InitRun
    /\ names_in = <<>>
    /\ view = <<>>
    /\ thr = <<>>
    /\ lock = 0
    /\ used = {}
    /\ opts \in Options
    /\ resolved_by = "none"
    /\ stereo = <<>>
    /\ left_raw = <<>>
    /\ right_raw = <<>>

NextOptions ==
    \/ \E h \in HandlesNow, po \in OutcomesNow, ins \in InputsNow : PrepareModel(h, po, ins)
    \/ \E e \in Entries, resolved \in BOOLEAN, h \in HandlesNow, po \in OutcomesNow,
          ins \in InputsNow : Begin(e, resolved, h, po, ins)

SpecOptions == InitOptions /\ [][NextOptions]_vars

\* C15 (as claimed): a run whose options set model_path resolves its model
\* handle with load_model_from_path and does not call ensure_model; a run
\* whose options leave it unset resolves the handle through ensure_model.
C15_ModelPathHonoured ==
    entry # "none" =>
        IF opts.model_path # 0
        THEN resolved_by = "load_model_from_path"
        ELSE resolved_by = "ensure_model"

\* the run after an engine error: failed, nothing finished
FailedByEngine ==
    /\ pc = "failed"
    /\ result = "err"
    /\ FinishedAt = {}
    /\ stems = <<>>

\* C21: engine failures are terminal and not retried.  The k-th engine call
\* of a run is made at position (k-1)*hop, so no position is called twice;
\* after the first engine call that returned an error the run is failed, it
\* stays failed, no further engine call is made and it never finishes.
C21_EngineFailureTerminal ==
    /\ [](eng_err => FailedByEngine)
    /\ [][/\ calls' # calls =>
                /\ calls' = calls + 1
                /\ pc = "loop"
                /\ ~eng_err
                /\ pos = calls * MANIFEST.mf.hop
          /\ eng_err =>
                /\ eng_err'
                /\ calls' = calls
                /\ pc' = "failed"
                /\ result' = "err"
                /\ events' = events]_vars

\* the engine failed at the second window, after the first was committed
C21_Witness ==
    /\ eng_err
    /\ pc = "failed"
    /\ calls = 2
    /\ Len(regions) = 1
    /\ pos = MANIFEST.mf.hop

(***************************************************************************)
(* SpecLoop: the run with a thread that keeps executing: a loop iteration  *)
(* that can be taken is eventually taken.                                  *)
(***************************************************************************)
SpecLoop ==
    Init /\ [][Next]_vars /\ WF_vars(\E pre \in PreNow, ans \in AnswersNow : Window(pre, ans))

CeilDiv(a, b) == (a + b - 1) \div b

\* the windows started so far are at 0, hop, 2*hop, ..., all below N, and
\* every one but possibly the latest has pos + hop < N
WindowStarts ==
    LET hop == MANIFEST.mf.hop
    IN  /\ \A j \in 1..Len(regions) :
              /\ regions[j].pos = (j - 1) * hop
              /\ regions[j].pos < n
              /\ j < Len(regions) => regions[j].pos + hop < n
        /\ pc = "loop" => pos = Len(regions) * hop /\ pos < n /\ calls = Len(regions)
        /\ MANIFEST.set /\ hop > 0 /\ n > 0 => calls <= CeilDiv(n, hop)
        /\ LoopDone =>
              /\ calls = CeilDiv(n, hop)
              /\ Len(regions) = calls
              /\ regions[calls].pos + hop >= n
              /\ n <= hop => calls = 1

\* C19: the windowing loop terminates and makes exactly ceil(N / hop) engine
\* calls.  The window start positions are 0, hop, 2*hop, ..., the loop stops
\* at the first position with pos + hop >= N, no window starts at a position
\* >= N, for N <= hop exactly one window is processed, and a run that is in
\* the loop eventually leaves it.
C19_LoopTerminates == [](WindowStarts) /\ ((pc = "loop") ~> (pc # "loop"))

\* two windows were needed for an input that is not a multiple of the hop
C19_Witness ==
    /\ pc = "built"
    /\ calls = 2
    /\ Len(regions) = 2
    /\ regions[2].pos = MANIFEST.mf.hop
    /\ n % MANIFEST.mf.hop # 0
    /\ MANIFEST.mf.window > MANIFEST.mf.hop

(***************************************************************************)
(* SpecResolve: the name table and get_idx on drawn manifest name lists    *)
(* and stem counts.                                                        *)
(***************************************************************************)
NamePool == {S_vocals, S_VOCALS, S_drums, S_bass, S_other, S_piano}

RECURSIVE SeqsUpTo(_, _)
SeqsUpTo(pool, len) ==
    IF len = 0 THEN {<<>>}
    ELSE LET shorter == SeqsUpTo(pool, len - 1)
         IN  shorter \cup {Append(sq, x) : sq \in {t \in shorter : Len(t) = len - 1}, x \in pool}

AllNameLists == SeqsUpTo(NamePool, MaxNames) \cup StemLists

ResolveCounts == 0..(MaxS + 1)

InitResolve ==
    /\ InitEngine
    /\ build = "ort"
    /\ pc = "names"
    /\ entry = "none"
    /\ n = 0
    /\ pos = 0
    /\ first_chunk = FALSE
    /\ stems_count \in ResolveCounts
    /\ acc = <<>>
    /\ wcount = <<>>
    /\ regions = <<>>
    /\ calls = 0
    /\ s_seen = {}
    /\ eng_err = FALSE
    /\ name_idx = <<>>
    /\ result = "none"
    /\ files = {}
    /\ events = <<>>
    /\ stems = <<>>
    /\ names_in \in AllNameLists
    /\ opts = NoOptions
    /\ resolved_by = "none"
    /\ stereo = <<>>
    /\ left_raw = <<>>
    /\ right_raw = <<>>
    /\ view = <<>>
    /\ thr = <<>>
    /\ lock = 0
    /\ used = {}

\* lines 328-337 applied to the drawn list
ResolveBuild ==
    /\ pc = "names"
    /\ name_idx' = BuildNameIdx(names_in)
    /\ pc' = "table"
    /\ UNCHANGED <<engVars, entry, n, pos, first_chunk, stems_count, acc, wcount, regions,
                   calls, s_seen, eng_err, result, files, events, stems, names_in,
                   opts, resolved_by, stereo, left_raw, right_raw, view,
                   thr, lock, used>>

\* one get_idx call of an entry point
ResolveStem(stem) ==
    /\ pc \in {"table", "resolved"}
    /\ view' = [stem |-> stem, idx |-> IdxOf(name_idx, stems_count, stem)]
    /\ pc' = "resolved"
    /\ UNCHANGED <<engVars, entry, n, pos, first_chunk, stems_count, acc, wcount, regions,
                   calls, s_seen, eng_err, name_idx, result, files, events, stems, names_in,
                   opts, resolved_by, stereo, left_raw, right_raw,
                   thr, lock, used>>

NextResolve ==
    \/ ResolveBuild
    \/ \E stem \in Stems : ResolveStem(stem)

SpecResolve == InitResolve /\ [][NextResolve]_vars

\* letter-case-insensitive equality of two names
FoldUpper(c) == IF c \in 97..122 THEN c - 32 ELSE c

SameNameAnyCase(a, b) ==
    /\ Len(a) = Len(b)
    /\ \A j \in 1..Len(a) : FoldUpper(a[j]) = FoldUpper(b[j])

Hits(list, key) == {j \in 1..Len(list) : SameNameAnyCase(list[j], key)}

\* C4: name-based resolution has priority over position and ignores letter
\* case.  When the manifest list contains the requested name in any letter
\* case, the resolved index is a position of that name in the list (its last
\* one, when the list names it more than once); with the names
\* drums, bass, other, vocals, "vocals" resolves to 3.
C4_NameBeforePosition ==
    pc = "resolved" =>
        LET hits == Hits(names_in, StemName(view.stem))
        IN  /\ hits # {} =>
                 /\ view.idx + 1 \in hits
                 /\ \A j \in hits : j <= view.idx + 1
            /\ (names_in = <<S_drums, S_bass, S_other, S_vocals>> /\ view.stem = "Vocals")
                  => view.idx = 3

\* an upper-case "VOCALS" at position 2 of the list resolves "vocals" to 2
C4_Witness ==
    /\ pc = "resolved"
    /\ Len(names_in) = 3
    /\ names_in[3] = S_VOCALS
    /\ names_in[1] # S_vocals /\ names_in[2] # S_vocals
    /\ view.stem = "Vocals"
    /\ view.idx = 2

\* C26 (as claimed): distinct stems resolve to distinct accumulators.  With
\* S >= 4 accumulators and any manifest stem-name list, the indices resolved
\* for Vocals, Drums, Bass and Other are pairwise different.
C26_DistinctAccumulators ==
    (pc # "names" /\ stems_count >= 4) =>
        \A s1 \in Stems : \A s2 \in Stems :
            s1 # s2 => IdxOf(name_idx, stems_count, s1) # IdxOf(name_idx, stems_count, s2)

(***************************************************************************)
(* SeparatedStems views (lines 93-158).  A stem buffer maps a position to  *)
(* the pair <<left, right>>; a view returns interleaved samples.           *)
(***************************************************************************)
GetPlanar(sm, stem) ==
    LET data == sm[stem]
        len == Cardinality(DOMAIN data)
    IN  [j \in 1..(2 * len) |-> IF j <= len THEN data[j - 1][1] ELSE data[j - 1 - len][2]]

\* get, lines 95-107
Get(sm, stem) ==
    LET data == sm[stem]
        len == Cardinality(DOMAIN data)
    IN  [j \in 1..(2 * len) |-> data[(j - 1) \div 2][((j - 1) % 2) + 1]]

\* lines 123-126: add one stem buffer into out
MixStepLeftOnly(out, data) ==
    [j \in DOMAIN out |-> out[j] + data[(j - 1) \div 2][1]]

MixStep(out, data) ==
    [j \in DOMAIN out |-> out[j] + data[(j - 1) \div 2][((j - 1) % 2) + 1]]

RECURSIVE MixFrom(_, _, _, _)
MixFrom(sm, sel, k, out) ==
    IF k > Len(sel) THEN out
    ELSE MixFrom(sm, sel, k + 1,
                 IF sel[k] \in DOMAIN sm THEN MixStep(out, sm[sel[k]]) ELSE out)

\* mix, lines 119-130
Mix(sm, num_samples, sel) == MixFrom(sm, sel, 1, [j \in 1..(2 * num_samples) |-> 0])

Contains(sq, x) == \E j \in 1..Len(sq) : sq[j] = x

MixExceptOfExcluded(sm, num_samples, exclude) ==
    Mix(sm, num_samples, SelectSeq(StemAll, LAMBDA st : Contains(exclude, st)))

\* mix_except, lines 142-149
MixExcept(sm, num_samples, exclude) ==
    Mix(sm, num_samples, SelectSeq(StemAll, LAMBDA st : ~Contains(exclude, st)))

(***************************************************************************)
(* SpecStems: Separator::separate's tail and the views, on drawn           *)
(* accumulators.                                                           *)
(***************************************************************************)
SamplePairs == <<<<1, 2>>, <<3, -1>>>>

\* a stem buffer of the given length built from one stereo pair
Buffer(pr, len) == [q \in 0..(len - 1) |-> <<pr[1] * (q + 1), pr[2] - q>>]

StemCounts == 1..(MaxS + 1)

InitStems ==
    /\ build = "mock"
    /\ ORT_INIT = FALSE
    /\ SESSION = NoSession
    /\ poisoned = FALSE
    /\ names_in \in StemLists \cup {<<S_vocals, S_piano>>}
    /\ opts = NoOptions
    /\ resolved_by = "none"
    /\ stereo = <<>>
    /\ left_raw = <<>>
    /\ right_raw = <<>>
    /\ MANIFEST = [set |-> TRUE,
                   mf |-> [sample_rate |-> SAMPLE_RATE, window |-> 2, hop |-> 1,
                           stems |-> names_in]]
    /\ pc = "built"
    /\ entry = "separate"
    /\ n \in 1..MaxLen
    /\ pos = 0
    /\ first_chunk = FALSE
    /\ stems_count \in StemCounts
    /\ \E k \in 0..stems_count :
          acc = [st \in 0..(stems_count - 1) |->
                    Buffer(SamplePairs[IF st < k THEN 1 ELSE 2], n)]
    /\ wcount = <<>>
    /\ regions = <<>>
    /\ calls = 0
    /\ s_seen = {}
    /\ eng_err = FALSE
    /\ name_idx = <<>>
    /\ result = "none"
    /\ files = {}
    /\ events = <<>>
    /\ stems = <<>>
    /\ view = <<>>
    /\ thr = <<>>
    /\ lock = 0
    /\ used = {}

\* the slices the views are called with
RECURSIVE SeqOfSet(_, _, _)
SeqOfSet(order, set, k) ==
    IF k > Len(order) THEN <<>>
    ELSE (IF order[k] \in set THEN <<order[k]>> ELSE <<>>) \o SeqOfSet(order, set, k + 1)

Slices ==
    {SeqOfSet(StemAll, sub, 1) : sub \in SUBSET Stems}
    \cup {<<"Other", "Vocals">>, <<"Drums", "Drums">>, <<"Vocals", "Bass", "Vocals">>}

ViewGet(stem) ==
    /\ pc = "done"
    /\ view' = [op |-> "get", arg |-> <<stem>>, out |-> Get(stems, stem)]
    /\ UNCHANGED <<engVars, runVars, names_in, opts, resolved_by,
                   stereo, left_raw, right_raw, thr, lock, used>>

ViewMixTakesBuffers(sel) ==
    /\ pc = "done"
    /\ view' = [op |-> "mix", arg |-> sel, out |-> Mix(stems, n, sel)]
    /\ stems' = [st \in DOMAIN stems |-> IF Contains(sel, st) THEN <<>> ELSE stems[st]]
    /\ UNCHANGED <<engVars, pc, entry, n, pos, first_chunk, stems_count, acc, wcount,
                   regions, calls, s_seen, eng_err, name_idx, result, files, events,
                   names_in, opts, resolved_by,
                   stereo, left_raw, right_raw, thr, lock, used>>

ViewMix(sel) ==
    /\ pc = "done"
    /\ view' = [op |-> "mix", arg |-> sel, out |-> Mix(stems, n, sel)]
    /\ UNCHANGED <<engVars, runVars, names_in, opts, resolved_by,
                   stereo, left_raw, right_raw, thr, lock, used>>

ViewMixExcept(exclude) ==
    /\ pc = "done"
    /\ view' = [op |-> "mix_except", arg |-> exclude, out |-> MixExcept(stems, n, exclude)]
    /\ UNCHANGED <<engVars, runVars, names_in, opts, resolved_by,
                   stereo, left_raw, right_raw, thr, lock, used>>

\* AudioData { samples, sample_rate: self.sample_rate, channels: 2 }
AudioOf(samples) ==
    [samples |-> samples, sample_rate |-> MANIFEST.mf.sample_rate, channels |-> 2]

\* get_audio, lines 110-116
ViewGetAudio(stem) ==
    /\ pc = "done"
    /\ view' = [op |-> "get_audio", arg |-> <<stem>>, out |-> AudioOf(Get(stems, stem))]
    /\ UNCHANGED <<engVars, runVars, names_in, opts, resolved_by,
                   stereo, left_raw, right_raw, thr, lock, used>>

\* mix_audio, lines 133-139
ViewMixAudio(sel) ==
    /\ pc = "done"
    /\ view' = [op |-> "mix_audio", arg |-> sel, out |-> AudioOf(Mix(stems, n, sel))]
    /\ UNCHANGED <<engVars, runVars, names_in, opts, resolved_by,
                   stereo, left_raw, right_raw, thr, lock, used>>

\* mix_except_audio, lines 152-158
ViewMixExceptAudio(exclude) ==
    /\ pc = "done"
    /\ view' = [op |-> "mix_except_audio", arg |-> exclude,
                out |-> AudioOf(MixExcept(stems, n, exclude))]
    /\ UNCHANGED <<engVars, runVars, names_in, opts, resolved_by,
                   stereo, left_raw, right_raw, thr, lock, used>>

NextStems ==
    \/ ReturnStemData
    \/ SeparateTail
    \/ \E stem \in Stems : ViewGet(stem)
    \/ \E sel \in Slices : ViewMix(sel)
    \/ \E exclude \in Slices : ViewMixExcept(exclude)
    \/ \E stem \in Stems : ViewGetAudio(stem)
    \/ \E sel \in Slices : ViewMixAudio(sel)
    \/ \E exclude \in Slices : ViewMixExceptAudio(exclude)

SpecStems == InitStems /\ [][NextStems]_vars

\* the sum, over a set of stems, of their buffers' sample at interleaved index j
RECURSIVE SumOver(_, _, _)
SumOver(sm, set, j) ==
    IF set = {} THEN 0
    ELSE LET stem == CHOOSE x \in set : TRUE
         IN  sm[stem][(j - 1) \div 2][((j - 1) % 2) + 1] + SumOver(sm, set \ {stem}, j)

\* the sum of the accumulators 0..upto, each counted once
RECURSIVE AccSum(_, _, _)
AccSum(a, upto, j) ==
    IF upto < 0 THEN 0
    ELSE a[upto][(j - 1) \div 2][((j - 1) % 2) + 1] + AccSum(a, upto - 1, j)

Range(sq) == {sq[j] : j \in 1..Len(sq)}

\* C5: mix_except(exclude) equals mix(all_stems - exclude), sample by sample
\* and for both channels: the result has 2N samples, each the sum over the
\* stems not excluded, and it is what mix returns for the complement slice.
C5_MixExceptIsComplementMix ==
    (pc = "done" /\ view # <<>> /\ view.op = "mix_except") =>
        LET keep == Stems \ Range(view.arg)
        IN  /\ DOMAIN view.out = 1..(2 * n)
            /\ \A j \in 1..(2 * n) : view.out[j] = SumOver(stems, keep, j)
            /\ view.out = Mix(stems, n, SeqOfSet(StemAll, keep, 1))

\* two stems excluded from a result whose buffers are not silent
C5_Witness ==
    /\ pc = "done"
    /\ view # <<>>
    /\ view.op = "mix_except"
    /\ view.arg = <<"Vocals", "Bass">>
    /\ n = 2
    /\ \E j \in 1..(2 * n) : view.out[j] # 0
    /\ stems["Drums"] # stems["Other"]

\* C6 (as claimed): mix(all_stems) is the sum of the S accumulators, each
\* counted exactly once, for every S >= 1.
C6_MixAllIsAccumulatorSum ==
    (pc = "done" /\ view # <<>> /\ view.op = "mix" /\ view.arg = StemAll) =>
        \A j \in 1..(2 * n) : view.out[j] = AccSum(acc, stems_count - 1, j)

\* C6 (amended): mix(all_stems) is the sum of the four resolved stem buffers
\* get(Vocals), get(Drums), get(Bass), get(Other); it is the sum of the S
\* accumulators, each counted once, when the four resolved indices are
\* exactly the indices 0..S-1.
C6_MixAllIsResolvedSum ==
    (pc = "done" /\ view # <<>> /\ view.op = "mix" /\ view.arg = StemAll) =>
        /\ DOMAIN view.out = 1..(2 * n)
        /\ \A j \in 1..(2 * n) :
              view.out[j] = Get(stems, "Vocals")[j] + Get(stems, "Drums")[j]
                            + Get(stems, "Bass")[j] + Get(stems, "Other")[j]
        /\ ( /\ {IdxOf(name_idx, stems_count, stem) : stem \in Stems} = 0..(stems_count - 1)
             /\ stems_count = 4 )
           => \A j \in 1..(2 * n) : view.out[j] = AccSum(acc, stems_count - 1, j)

\* mix(all_stems) of a two-accumulator result, names resolved by the fallback
C6_Witness ==
    /\ pc = "done"
    /\ view # <<>>
    /\ view.op = "mix"
    /\ view.arg = StemAll
    /\ stems_count = 2
    /\ n = 2
    /\ \E j \in 1..(2 * n) : view.out[j] # AccSum(acc, stems_count - 1, j)

\* what a view call returns on the result (sm, num, rate)
ViewResultOn(sm, num, rate, op, arg) ==
    LET audio(x) == [samples |-> x, sample_rate |-> rate, channels |-> 2]
    IN  CASE op = "get" -> Get(sm, arg[1])
          [] op = "mix" -> Mix(sm, num, arg)
          [] op = "mix_except" -> MixExcept(sm, num, arg)
          [] op = "get_audio" -> audio(Get(sm, arg[1]))
          [] op = "mix_audio" -> audio(Mix(sm, num, arg))
          [] op = "mix_except_audio" -> audio(MixExcept(sm, num, arg))

\* C16: derived views are pure.  A call of get, get_audio, mix, mix_audio,
\* mix_except or mix_except_audio on a finished SeparatedStems leaves every
\* stem buffer, the sample rate and num_samples unchanged, makes no engine
\* call and touches no engine state; and the call made before it, made
\* again afterwards with the same arguments, returns the same samples.
C16_ViewsArePure ==
    [][pc = "done" =>
          /\ pc' = "done"
          /\ stems' = stems
          /\ n' = n
          /\ acc' = acc
          /\ calls' = calls
          /\ used' = used
          /\ <<ORT_INIT, SESSION, MANIFEST, poisoned>>' = <<ORT_INIT, SESSION, MANIFEST, poisoned>>
          /\ view # <<>> =>
                ViewResultOn(stems', n', MANIFEST'.mf.sample_rate, view.op, view.arg)
                    = view.out]_vars

\* a stereo mix as AudioData, taken from a result with two different buffers
C16_Witness ==
    /\ pc = "done"
    /\ view # <<>>
    /\ view.op = "mix_audio"
    /\ view.arg = <<"Vocals", "Drums">>
    /\ n = 2
    /\ stems["Vocals"] # stems["Drums"]
    /\ view.out.samples # Get(stems, "Vocals")

\* remove_vocals, lines 462-469: the vocals track, interleaved
VocalsSamples(a, vocals_idx, len) ==
    [j \in 1..(2 * len) |-> a[vocals_idx][(j - 1) \div 2][((j - 1) % 2) + 1]]

\* lines 489-496: left or right sum over the accumulators other than vocals
RECURSIVE InstrumentalSum(_, _, _, _, _)
InstrumentalSum(a, st, count, vocals_idx, j) ==
    IF st >= count THEN 0
    ELSE (IF st # vocals_idx THEN a[st][(j - 1) \div 2][((j - 1) % 2) + 1] ELSE 0)
         + InstrumentalSum(a, st + 1, count, vocals_idx, j)

\* remove_vocals, lines 487-499: the instrumental track, interleaved
Instrumental(a, count, vocals_idx, len) ==
    [j \in 1..(2 * len) |-> InstrumentalSum(a, 0, count, vocals_idx, j)]

\* C25 (as claimed): remove_vocals and the Separator API agree on the
\* instrumental.  For the same accumulators, manifest names and stem count,
\* the instrumental track of remove_vocals equals mix_except([Vocals]) of
\* the SeparatedStems sample for sample, and its vocals track equals
\* get(Vocals).
C25_InstrumentalAgrees ==
    (pc = "done" /\ result = "ok") =>
        LET vocals_idx == get_idx(name_idx, stems_count, S_vocals, 0)
        IN  /\ VocalsSamples(acc, vocals_idx, n) = Get(stems, "Vocals")
            /\ Instrumental(acc, stems_count, vocals_idx, n)
                  = MixExcept(stems, n, <<"Vocals">>)

(***************************************************************************)
(* SpecContent: the windowing loop with sample data, on the engine-mock    *)
(* build (the one engine whose output the sources define: it copies its    *)
(* input to each of four sources, for any window length), followed by      *)
(* Separator::separate's tail and the views.  The loop body is two steps:  *)
(* fill the window buffers (lines 294-303), call and commit (305-325).     *)
(***************************************************************************)
\* decoded inputs of len stereo samples
Signals(len) ==
    { [i \in 0..(len - 1) |-> <<i + 1, -(i + 1)>>],
      [i \in 0..(len - 1) |-> <<5 - i, 2 * i>>] }

ContentStems == {<<>>, <<S_drums, S_bass, S_other, S_vocals>>}

\* vec![0f32; win]
ZeroBuf(win) == [i \in 0..(win - 1) |-> 0]

BufLen(b) == Cardinality(DOMAIN b)

InitContent ==
    /\ build = "mock"
    /\ ORT_INIT = FALSE
    /\ SESSION = NoSession
    /\ poisoned = FALSE
    /\ \E w \in 1..MaxWin, h \in 1..MaxHop, names \in ContentStems :
          /\ ConfigOk(w, h)
          /\ MANIFEST = [set |-> TRUE,
                         mf |-> [sample_rate |-> SAMPLE_RATE, window |-> w, hop |-> h,
                                 stems |-> names]]
          /\ stems_count = MaxOf(Len(names), 1)
          /\ left_raw = ZeroBuf(w)
          /\ right_raw = ZeroBuf(w)
    /\ pc = "fill"
    /\ entry = "separate"
    /\ n \in 1..MaxN
    /\ stereo \in Signals(n)
    /\ pos = 0
    /\ first_chunk = TRUE
    /\ acc = <<>>
    /\ wcount = <<>>
    /\ regions = <<>>
    /\ calls = 0
    /\ s_seen = {}
    /\ eng_err = FALSE
    /\ name_idx = <<>>
    /\ result = "none"
    /\ files = {}
    /\ events = <<Stage("resolve_model"), Stage("engine_preload"), Stage("read_audio"),
                  Stage("infer")>>
    /\ stems = <<>>
    /\ names_in = <<>>
    /\ view = <<>>
    /\ thr = <<>>
    /\ lock = 0
    /\ used = {}
    /\ opts = NoOptions
    /\ resolved_by = "ensure_model"

FillKeepsTail(prev, src, p, len, c) ==
    [i \in DOMAIN prev |-> IF p + i < len THEN src[p + i][c] ELSE prev[i]]

\* lines 294-303: every entry of the reused buffer is written, channel c
Fill(prev, src, p, len, c) ==
    [i \in DOMAIN prev |-> IF p + i < len THEN src[p + i][c] ELSE 0]

\* line 293 and lines 294-303
FillWindow ==
    /\ pc = "fill"
    /\ IF pos < n
       THEN /\ left_raw' = Fill(left_raw, stereo, pos, n, 1)
            /\ right_raw' = Fill(right_raw, stereo, pos, n, 2)
            /\ pc' = "call"
       ELSE /\ pc' = "built"
            /\ UNCHANGED <<left_raw, right_raw>>
    /\ UNCHANGED <<engVars, entry, n, pos, first_chunk, stems_count, acc, wcount, regions,
                   calls, s_seen, eng_err, name_idx, result, files, events, stems,
                   names_in, view, thr, lock, used, opts, resolved_by, stereo>>

\* _engine_mock::run_window_demucs, lines 341-353: source s, channel c,
\* offset i of the output is the input of channel c at offset i
EchoOut(l, r, sources, t) ==
    [s \in 0..(sources - 1) |->
        [c \in 1..2 |-> [i \in 0..(t - 1) |-> IF c = 1 THEN l[i] ELSE r[i]]]]

\* vec![vec![[0f32; 2]; n]; stems_count]
ZeroPairs(count, len) == [st \in 0..(count - 1) |-> [p \in 0..(len - 1) |-> <<0, 0>>]]

CommitOutAtOffsetZero(a, out, upto, p, copy_len) ==
    [st \in DOMAIN a |->
        IF st < upto
        THEN [q \in DOMAIN a[st] |->
                 IF q >= p /\ q < p + copy_len
                 THEN <<out[st][1][0], out[st][2][0]>>
                 ELSE a[st][q]]
        ELSE a[st]]

\* lines 315-320 on the engine's output array
CommitOut(a, out, upto, p, copy_len) ==
    [st \in DOMAIN a |->
        IF st < upto
        THEN [q \in DOMAIN a[st] |->
                 IF q >= p /\ q < p + copy_len
                 THEN <<out[st][1][q - p], out[st][2][q - p]>>
                 ELSE a[st][q]]
        ELSE a[st]]

\* lines 305-325
CallCommit ==
    /\ pc = "call"
    /\ LET mf == MANIFEST.mf
           r == RunWindowMock(BufLen(left_raw), BufLen(right_raw))
           out == EchoOut(left_raw, right_raw, r.s, r.t)
           count == IF first_chunk THEN r.s ELSE stems_count
           a0 == IF first_chunk THEN ZeroPairs(count, n) ELSE acc
           copy_len == CopyLen(mf.hop, r.t, n, pos)
       IN  /\ calls' = calls + 1
           /\ stems_count' = count
           /\ first_chunk' = FALSE
           /\ s_seen' = s_seen \cup {r.s}
           /\ acc' = CommitOut(a0, out, Min(count, r.s), pos, copy_len)
           /\ IF r.s < count /\ copy_len > 0
              THEN /\ pc' = "panicked"
                   /\ UNCHANGED <<pos, regions>>
              ELSE /\ regions' = Append(regions, [pos |-> pos, len |-> copy_len])
                   /\ IF LastWindow(pos, mf.hop, n)
                      THEN pc' = "built" /\ UNCHANGED pos
                      ELSE pc' = "fill" /\ pos' = pos + mf.hop
    /\ UNCHANGED <<engVars, entry, n, wcount, eng_err, name_idx, result, files, events,
                   stems, names_in, view, thr, lock, used, opts, resolved_by, stereo,
                   left_raw, right_raw>>

NextContent ==
    \/ FillWindow
    \/ CallCommit
    \/ ReturnStemData
    \/ SeparateTail
    \/ \E stem \in Stems : ViewGet(stem)
    \/ \E sel \in Slices : ViewMix(sel)
    \/ \E exclude \in Slices : ViewMixExcept(exclude)

SpecContent == InitContent /\ [][NextContent]_vars

\* C17: after every successful run with input length N each of the S
\* accumulators has exactly N stereo entries, num_samples is N, get(stem)
\* returns 2N samples with [2i] the left and [2i+1] the right sample of
\* position i for each of the four stems, and mix and mix_except return 2N
\* samples (the sequences here start at 1, so offset 2i is index 2i+1).
C17_LengthInvariant ==
    result = "ok" =>
        /\ AccLen(acc) = stems_count
        /\ \A st \in DOMAIN acc : DOMAIN acc[st] = 0..(n - 1)
        /\ \A stem \in Stems :
              LET out == Get(stems, stem)
              IN  /\ DOMAIN out = 1..(2 * n)
                  /\ \A i \in 0..(n - 1) :
                        /\ out[2 * i + 1] = stems[stem][i][1]
                        /\ out[2 * i + 2] = stems[stem][i][2]
        /\ \A sel \in Slices :
              /\ DOMAIN Mix(stems, n, sel) = 1..(2 * n)
              /\ DOMAIN MixExcept(stems, n, sel) = 1..(2 * n)
        /\ view # <<>> => DOMAIN view.out = 1..(2 * n)

C17_Witness ==
    /\ result = "ok"
    /\ n = MaxN
    /\ calls >= 2
    /\ stems_count = MOCK_SOURCES
    /\ view # <<>>
    /\ view.op = "get"
    /\ Len(view.out) = 2 * MaxN
    /\ view.out[1] # view.out[2]

\* the engine's output for the window that starts at the given position
WindowOut(start) ==
    LET w == MANIFEST.mf.window
    IN  EchoOut(Fill(ZeroBuf(w), stereo, start, n, 1), Fill(ZeroBuf(w), stereo, start, n, 2),
                MOCK_SOURCES, w)

\* C18: committed content is the first hop samples of each window.  Once the
\* loop has ended, for every stem s and every position p in [0, N) the
\* accumulator entry was written by window k = p div hop, which started at
\* k*hop, from offset p mod hop of that window's engine output; no offset
\* >= hop of a window's output is committed.  The engine here echoes its
\* input, so every accumulator equals the input signal on [0, N).
C18_CommittedContent ==
    pc \in {"built", "tail", "done"} =>
        LET hop == MANIFEST.mf.hop
        IN  /\ \A j \in 1..Len(regions) : regions[j].len <= hop
            /\ DOMAIN acc = 0..(MOCK_SOURCES - 1)
            /\ \A s \in DOMAIN acc : \A p \in 0..(n - 1) :
                  LET k == p \div hop
                      off == p % hop
                  IN  /\ k + 1 <= Len(regions)
                      /\ regions[k + 1].pos = k * hop
                      /\ off < regions[k + 1].len
                      /\ acc[s][p] = <<WindowOut(k * hop)[s][1][off],
                                       WindowOut(k * hop)[s][2][off]>>
                      /\ acc[s][p] = stereo[p]

\* several overlapping windows, a ragged last one, a successful run
C18_Witness ==
    /\ result = "ok"
    /\ MANIFEST.mf.hop >= 2
    /\ MANIFEST.mf.window > MANIFEST.mf.hop
    /\ Len(regions) >= 2
    /\ n % MANIFEST.mf.hop # 0
    /\ acc[0][n - 1] = stereo[n - 1]
    /\ acc[0][n - 1] # <<0, 0>>

\* C20: window slicing with right zero-padding.  The left and right buffers
\* handed to the engine for the window at pos have exactly window entries;
\* entry i is the input sample at pos+i when pos+i < N and 0 otherwise, so
\* nothing of an earlier window is left in the padded tail of the reused
\* buffers.
C20_WindowSlicing ==
    pc = "call" =>
        LET w == MANIFEST.mf.window
        IN  /\ DOMAIN left_raw = 0..(w - 1)
            /\ DOMAIN right_raw = 0..(w - 1)
            /\ BufLen(left_raw) = w /\ BufLen(right_raw) = w
            /\ \A i \in 0..(w - 1) :
                  IF pos + i < n
                  THEN left_raw[i] = stereo[pos + i][1] /\ right_raw[i] = stereo[pos + i][2]
                  ELSE left_raw[i] = 0 /\ right_raw[i] = 0

\* a later window with a padded tail, where the window before it had put a
\* non-zero sample into the same buffer entry
C20_Witness ==
    /\ pc = "call"
    /\ pos > 0
    /\ \E i \in 0..(MANIFEST.mf.window - 1) :
          /\ pos + i >= n
          /\ left_raw[i] = 0
          /\ pos - MANIFEST.mf.hop + i < n
          /\ stereo[pos - MANIFEST.mf.hop + i][1] # 0

(***************************************************************************)
(* SpecEngine: threads of one process, each preloading a model and then    *)
(* calling engine::run_window_demucs.  The steps of preload and of a call  *)
(* interleave; the session Mutex is held from lock() to the return.        *)
(***************************************************************************)
Threads == 1..MaxThreads

EngineManifest(f) ==
    [sample_rate |-> SAMPLE_RATE, window |-> DEMUCS_T, hop |-> f,
     stems |-> IF f = 1 THEN <<>> ELSE <<S_drums, S_bass, S_other, S_vocals>>]

EngineHandles == {[manifest |-> EngineManifest(f), local_path |-> f] : f \in ModelFiles}

EngineInputSets == {{"input", "x"}, {"x"}}

NoHandle == [manifest |-> NoManifest.mf, local_path |-> 0]

InitEngineSpec ==
    /\ InitEngine
    /\ InitRun
    /\ names_in = <<>>
    /\ opts = NoOptions
    /\ resolved_by = "none"
    /\ stereo = <<>>
    /\ left_raw = <<>>
    /\ right_raw = <<>>
    /\ view = <<>>
    /\ thr = [t \in Threads |->
                [pc |-> "start", h |-> NoHandle, built |-> NoSession, calls |-> 0]]
    /\ lock = 0
    /\ used = {}

\* preload, lines 103-106 (mock: 333-334)
TPreloadInit(t, h, po) ==
    /\ thr[t].pc = "start"
    /\ IF build = "mock"
       THEN /\ MANIFEST' = OnceSet(MANIFEST, [set |-> TRUE, mf |-> h.manifest])
            /\ thr' = [thr EXCEPT ![t].pc = "ready"]
            /\ UNCHANGED ORT_INIT
       ELSE /\ UNCHANGED MANIFEST
            /\ IF po = "init_err" /\ ~ORT_INIT
               THEN /\ thr' = [thr EXCEPT ![t].pc = "done"]
                    /\ UNCHANGED ORT_INIT
               ELSE /\ ORT_INIT' = TRUE
                    /\ thr' = [thr EXCEPT ![t].pc = "build", ![t].h = h]
    /\ UNCHANGED <<build, SESSION, poisoned, runVars, names_in,
                   opts, resolved_by, stereo, left_raw, right_raw, view, lock, used>>

\* preload, lines 108-166: build a session from the handle's model file
TPreloadBuild(t, ok, ins) ==
    /\ thr[t].pc = "build"
    /\ thr' = IF ok
              THEN [thr EXCEPT ![t].pc = "set_session",
                               ![t].built = [set |-> TRUE, file |-> thr[t].h.local_path,
                                             inputs |-> ins]]
              ELSE [thr EXCEPT ![t].pc = "done", ![t].h = NoHandle]
    /\ UNCHANGED <<engVars, runVars, names_in, opts, resolved_by,
                   stereo, left_raw, right_raw, view, lock, used>>

\* preload, line 168: the built session moves into the cell or is dropped
TSetSession(t) ==
    /\ thr[t].pc = "set_session"
    /\ SESSION' = OnceSet(SESSION, thr[t].built)
    /\ thr' = [thr EXCEPT ![t].pc = "set_manifest", ![t].built = NoSession]
    /\ UNCHANGED <<build, ORT_INIT, MANIFEST, poisoned, runVars, names_in,
                   opts, resolved_by, stereo, left_raw, right_raw, view, lock, used>>

\* preload, lines 169-170
TSetManifest(t) ==
    /\ thr[t].pc = "set_manifest"
    /\ MANIFEST' = OnceSet(MANIFEST, [set |-> TRUE, mf |-> thr[t].h.manifest])
    /\ thr' = [thr EXCEPT ![t].pc = "ready", ![t].h = NoHandle]
    /\ UNCHANGED <<build, ORT_INIT, SESSION, poisoned, runVars, names_in,
                   opts, resolved_by, stereo, left_raw, right_raw, view, lock, used>>

\* run_window_demucs, lines 182-208 (mock: the whole call)
TCall(t, pre) ==
    /\ thr[t].pc = "ready"
    /\ thr[t].calls < MaxCalls
    /\ thr' = IF build = "ort"
                 /\ PreLock(MANIFEST.mf.window, MANIFEST.mf.window, pre) = "ok"
              THEN [thr EXCEPT ![t].pc = "lock"]
              ELSE [thr EXCEPT ![t].calls = @ + 1]
    /\ UNCHANGED <<engVars, runVars, names_in, opts, resolved_by,
                   stereo, left_raw, right_raw, view, lock, used>>

TAcquireAnyway(t) ==
    /\ thr[t].pc = "lock"
    /\ lock' = t
    /\ thr' = [thr EXCEPT ![t].pc = "locked"]
    /\ UNCHANGED <<engVars, runVars, names_in, opts, resolved_by,
                   stereo, left_raw, right_raw, view, used>>

\* lines 210-214: Mutex::lock blocks while the lock is held; on a poisoned
\* Mutex it returns an error and expect() panics
TAcquire(t) ==
    /\ thr[t].pc = "lock"
    /\ lock = 0
    /\ IF poisoned
       THEN thr' = [thr EXCEPT ![t].pc = "panicked"] /\ UNCHANGED lock
       ELSE thr' = [thr EXCEPT ![t].pc = "locked"] /\ lock' = t
    /\ UNCHANGED <<engVars, runVars, names_in, opts, resolved_by,
                   stereo, left_raw, right_raw, view, used>>

\* lines 216-229: look up the input names, then enter session.run
TInputs(t) ==
    /\ thr[t].pc = "locked"
    /\ IF "input" \in SESSION.inputs /\ "x" \in SESSION.inputs
       THEN /\ thr' = [thr EXCEPT ![t].pc = "in_run"]
            /\ used' = used \cup {SESSION.file}
            /\ UNCHANGED lock
       ELSE /\ thr' = [thr EXCEPT ![t].pc = "ready", ![t].calls = @ + 1]
            /\ lock' = 0
            /\ UNCHANGED used
    /\ UNCHANGED <<engVars, runVars, names_in, opts, resolved_by,
                   stereo, left_raw, right_raw, view>>

\* lines 232-323: session.run returns, the outputs are checked and combined,
\* the guard is dropped on return or while a panic unwinds
TFinish(t, ans) ==
    /\ thr[t].pc = "in_run"
    /\ LET r == InLock(SESSION.inputs, MANIFEST.mf.window, ans)
       IN  IF r.kind = "panic"
           THEN /\ poisoned' = TRUE
                /\ thr' = [thr EXCEPT ![t].pc = "panicked"]
           ELSE /\ thr' = [thr EXCEPT ![t].pc = "ready", ![t].calls = @ + 1]
                /\ UNCHANGED poisoned
    /\ lock' = 0
    /\ UNCHANGED <<build, ORT_INIT, SESSION, MANIFEST, runVars, names_in,
                   opts, resolved_by, stereo, left_raw, right_raw, view, used>>

NextEngine ==
    \E t \in Threads :
        \/ \E h \in EngineHandles, po \in OutcomesNow : TPreloadInit(t, h, po)
        \/ \E ok \in BOOLEAN, ins \in EngineInputSets : TPreloadBuild(t, ok, ins)
        \/ TSetSession(t)
        \/ TSetManifest(t)
        \/ \E pre \in PreNow : TCall(t, pre)
        \/ TAcquire(t)
        \/ TInputs(t)
        \/ \E ans \in OrtAnswers : TFinish(t, ans)

SpecEngine == InitEngineSpec /\ [][NextEngine]_vars

InSession(t) == thr[t].pc \in {"locked", "in_run"}

C10_SingleLoadedModel ==
    [][/\ SESSION.set => SESSION' = SESSION
       /\ Cardinality(used') <= 1
       /\ used' \subseteq {SESSION'.file}]_vars

\* inference has run on the installed session and a preload of another
\* model file is about to set the session cell
C10_Witness ==
    \E t \in Threads :
        /\ thr[t].pc = "set_session"
        /\ SESSION.set
        /\ thr[t].built.file # SESSION.file
        /\ used # {}


\* C23 (as claimed): session and manifest stay paired.  After any
\* interleaving of preload calls with handles of different models, the
\* installed manifest is the manifest of the handle whose model file the
\* installed session was built from, and a later preload changes neither.
C23_SessionManifestPaired ==
    /\ [](SESSION.set /\ MANIFEST.set => MANIFEST.mf = EngineManifest(SESSION.file))
    /\ [][/\ SESSION.set => SESSION' = SESSION
          /\ MANIFEST.set => MANIFEST' = MANIFEST]_vars

\* C24 (as claimed): the engine lock is always released and the engine
\* stays usable.  The lock is held only by a thread inside a call, every
\* way a call ends frees it, and a thread that finds the lock free acquires
\* it: no call fails at lock() because of the outcome of an earlier call.
C24_LockReleasedEngineUsable ==
    /\ [](\A t \in Threads : lock = t => InSession(t))
    /\ [][\A t \in Threads :
            /\ (InSession(t) /\ ~InSession(t)') => lock' = 0
            /\ (thr[t].pc = "lock" /\ lock = 0 /\ thr'[t] # thr[t])
                  => (thr'[t].pc = "locked" /\ lock' = t)]_vars

(***************************************************************************)
(* SpecAdapter: calls of engine::run_window_demucs on one loaded session,  *)
(* with drawn buffers lengths, pre-lock outcomes and runtime answers.      *)
(***************************************************************************)
InitAdapter ==
    /\ build = "ort"
    /\ ORT_INIT = TRUE
    /\ \E ins \in InputSets : SESSION = [set |-> TRUE, file |-> 1, inputs |-> ins]
    /\ MANIFEST = [set |-> TRUE, mf |-> EngineManifest(1)]
    /\ poisoned = FALSE
    /\ InitRun
    /\ names_in = <<>>
    /\ opts = NoOptions
    /\ resolved_by = "none"
    /\ stereo = <<>>
    /\ left_raw = <<>>
    /\ right_raw = <<>>
    /\ view = <<>>
    /\ thr = <<>>
    /\ lock = 0
    /\ used = {}

\* lines 210-214: SESSION.get() .. .lock() is reached
LockCalled(sess, llen, rlen, pre) ==
    /\ PreLock(llen, rlen, pre) = "ok"
    /\ sess.set

\* session.run is reached: the checks before the lock passed, the Mutex is
\* not poisoned and both input names were found (lines 182-232)
Invoked(sess, poi, llen, rlen, pre) ==
    /\ PreLock(llen, rlen, pre) = "ok"
    /\ ~poi
    /\ "input" \in sess.inputs
    /\ "x" \in sess.inputs

\* one call; a panic between lock() and the return poisons the Mutex
RunWindowCall(llen, rlen, pre, ans) ==
    /\ pc = "idle"
    /\ view = <<>>
    /\ LET out == IF PreLock(llen, rlen, pre) = "ok" /\ poisoned
                  THEN [kind |-> "panic", s |-> 0, t |-> 0]
                  ELSE RunWindow(build, SESSION, llen, rlen, pre, ans)
       IN  /\ view' = [op |-> "run_window", llen |-> llen, rlen |-> rlen, pre |-> pre,
                       ans |-> ans, out |-> out, poi |-> poisoned,
                       invoked |-> Invoked(SESSION, poisoned, llen, rlen, pre),
                       locked |-> LockCalled(SESSION, llen, rlen, pre)]
           /\ poisoned' = (poisoned \/ out.kind = "panic")
           /\ used' = IF Invoked(SESSION, poisoned, llen, rlen, pre)
                      THEN used \cup {SESSION.file} ELSE used
    /\ UNCHANGED <<build, ORT_INIT, SESSION, MANIFEST, runVars, names_in,
                   opts, resolved_by, stereo, left_raw, right_raw, thr, lock>>

\* the caller has taken the result of the call (or has unwound)
RunWindowReturn ==
    /\ pc = "idle"
    /\ view # <<>>
    /\ view' = <<>>
    /\ UNCHANGED <<engVars, runVars, names_in, opts, resolved_by,
                   stereo, left_raw, right_raw, thr, lock, used>>

NextAdapter ==
    \/ \E llen \in Windows, rlen \in Windows, pre \in PreOutcomes, ans \in OrtAnswers :
          RunWindowCall(llen, rlen, pre, ans)
    \/ RunWindowReturn

SpecAdapter == InitAdapter /\ [][NextAdapter]_vars

\* the runtime answered with both named outputs as f32 tensors
Answered ==
    /\ view # <<>>
    /\ view.invoked
    /\ view.ans.run_ok
    /\ {"output", "add_67"} \subseteq view.ans.outs
    /\ view.ans.f32

GoodTimeShape(st, t) == Len(st) = 4 /\ st[1] = 1 /\ st[3] = 2 /\ st[4] = t

GoodFreqShape(sf, st) ==
    /\ Len(sf) = 5
    /\ Len(st) >= 2
    /\ sf = <<1, st[2], 4, DEMUCS_F, DEMUCS_FRAMES>>

\* C13 (as claimed): when the time tensor is not [S, 2, window_length] or the
\* frequency tensor is not [S, 4, F, M] with the same S, run_window_demucs
\* returns an error: no combined result, no crash while holding the lock.
C13_ShapesValidated ==
    ( /\ Answered
      /\ \/ ~GoodTimeShape(view.ans.shape_time, view.llen)
         \/ ~GoodFreqShape(view.ans.shape_freq, view.ans.shape_time) )
    => view.out.kind = "err"

\* C14: missing engine inputs and outputs are fatal at first use.  A session
\* that lacks "input" or "x" never reaches inference: every call on it
\* returns an error.  A call whose inference result lacks "output" or
\* "add_67" returns an error.  Neither produces a window result.
C14_MissingIOIsError ==
    /\ ~({"input", "x"} \subseteq SESSION.inputs) =>
          /\ used = {}
          /\ ~poisoned
          /\ view # <<>> => (view.out.kind = "err" /\ ~view.invoked)
    /\ ( /\ view # <<>>
         /\ view.invoked
         /\ view.ans.run_ok
         /\ ~({"output", "add_67"} \subseteq view.ans.outs) )
       => (view.out.kind = "err" /\ view.out.s = 0 /\ view.out.t = 0)

\* a full-length window given to a session without the input "x", the
\* runtime ready to answer with well-formed outputs
C14_Witness ==
    /\ view # <<>>
    /\ "x" \notin SESSION.inputs
    /\ PreLock(view.llen, view.rlen, view.pre) = "ok"
    /\ view.ans.run_ok
    /\ view.ans.shape_time = <<1, 2, 2, DEMUCS_T>>
    /\ view.out.kind = "err"


\* C22: adapter input validation precedes inference.  A call whose left and
\* right slices differ in length, or whose length is not DEMUCS_T, or whose
\* forward transform does not give (DEMUCS_F, DEMUCS_FRAMES) bins and frames,
\* returns an error; it neither reaches the session lock nor inference, and
\* it leaves the Mutex as it was.
C22_ValidationBeforeInference ==
    ( /\ view # <<>>
      /\ \/ view.llen # view.rlen
         \/ view.llen # DEMUCS_T
         \/ view.pre = "dims_mismatch" )
    => /\ view.out.kind = "err"
       /\ ~view.locked
       /\ ~view.invoked
       /\ poisoned = view.poi

\* a window of the wrong length on a healthy session that would have
\* answered with well-formed outputs
C22_Witness ==
    /\ view # <<>>
    /\ view.llen = view.rlen
    /\ view.llen # DEMUCS_T
    /\ view.llen > 0
    /\ view.pre = "ok"
    /\ {"input", "x"} \subseteq SESSION.inputs
    /\ ~view.poi
    /\ view.ans.run_ok
    /\ view.ans.shape_time = <<1, 2, 2, DEMUCS_T>>
    /\ view.out.kind = "err"
====
